---- MODULE Spec2Model ----
(***************************************************************************)
(* Model of r01transitionsystems/pacman.py: the grid (PacManGrid), the     *)
(* agent state (PacManState) with its hash and equality, the four move     *)
(* helpers, deadend and successors.                                        *)
(*                                                                         *)
(* A row of the grid description is a sequence of one-character strings.   *)
(* A PacManGrid object is the record [grid, xmax, ymax]; a PacManState is  *)
(* the record [x, y, d, grid].  An element of the list that successors()   *)
(* returns is the pair (hash, state), kept here as a record with the extra *)
(* field via, which names the helper that built the element ("N", "S",     *)
(* "E", "W" for moveNorth .. moveWest, "dead" for deadend).  via is        *)
(* bookkeeping for the properties only: no operator of the model reads it. *)
(***************************************************************************)
EXTENDS Integers, Sequences, FiniteSets, TLC

VARIABLES input, grid, err, s, last, q, cmp, succ

vars == <<input, grid, err, s, last, q, cmp, succ>>

\* ---------------------------------------------------------------- bounds
MaxCells == 4
MaxRows == 2
MaxRowLen == 2

Cell == {".", "X"}
Dirs == {"N", "S", "E", "W"}

\* ------------------------------------------------------------ PacManGrid
NoGrid == [grid |-> <<>>, xmax |-> -1, ymax |-> -1]

\* PacManGrid.__init__ (only reached when grid[0] exists)
PacManGrid(rows) ==
    [grid |-> rows, xmax |-> Len(rows[1]) - 1, ymax |-> Len(rows) - 1]

\* grid[0] of an empty list raises IndexError inside __init__
InitRaises(rows) == Len(rows) = 0

\* the guard of occupied: the cell is outside 0..xmax x 0..ymax
OutOfRange(g, x, y) == x < 0 \/ y < 0 \/ x > g.xmax \/ y > g.ymax

\* s = self.grid[self.ymax - y] (Python lists are 0-based, sequences 1-based)
RowOf(g, y) == g.grid[(g.ymax - y) + 1]

\* s[x] raises IndexError when the selected row is shorter than x + 1
OccupiedRaises(g, x, y) == ~OutOfRange(g, x, y) /\ x >= Len(RowOf(g, y))

\* occupied reading the rows bottom-up, without the ymax - y inversion
occupiedNoFlip(g, x, y) ==
    IF OutOfRange(g, x, y) THEN TRUE
    ELSE g.grid[y + 1][x + 1] = "X"

occupied(g, x, y) ==
    IF OutOfRange(g, x, y) THEN TRUE
    ELSE RowOf(g, y)[x + 1] = "X"

\* ----------------------------------------------------------- PacManState
PacManState(x, y, direction, g) == [x |-> x, y |-> y, d |-> direction, grid |-> g]

NoState == PacManState(0, 0, "none", NoGrid)

\* a hash that also mixes in the direction
HashWithDirection(st) ==
    4 * (st.x + (st.grid.xmax + 1) * st.y)
      + (CASE st.d = "N" -> 0 [] st.d = "S" -> 1 [] st.d = "E" -> 2 [] OTHER -> 3)

Hash(st) == st.x + (st.grid.xmax + 1) * st.y

Eq(a, b) == (a.x = b.x) /\ (a.y = b.y) /\ (a.d = b.d)

Pair(st, via) == [hash |-> Hash(st), state |-> st, via |-> via]

\* a north move taken from the state's own position, not from the arguments
moveNorthFromSelf(self, x, y) ==
    Pair(PacManState(self.x, self.y + 1, "N", self.grid), "N")

moveNorth(self, x, y) == Pair(PacManState(x, y + 1, "N", self.grid), "N")

moveSouth(self, x, y) == Pair(PacManState(x, y - 1, "S", self.grid), "S")

moveEast(self, x, y) == Pair(PacManState(x + 1, y, "W", self.grid), "E")

moveWest(self, x, y) == Pair(PacManState(x - 1, y, "E", self.grid), "W")

\* the value deadend falls through to (None) or returns (False): both falsy
None == [hash |-> 0, state |-> NoState, via |-> "None"]

\* note the argument order of the occupied calls: (y .., x ..)
deadend(self, x, y) ==
    CASE self.d = "N" ->
           IF /\ occupied(self.grid, y + 1, x)
              /\ occupied(self.grid, y, x + 1)
              /\ occupied(self.grid, y, x - 1)
           THEN Pair(PacManState(x, y - 1, "S", self.grid), "dead")
           ELSE None
      [] self.d = "S" ->
           IF /\ occupied(self.grid, y - 1, x)
              /\ occupied(self.grid, y, x + 1)
              /\ occupied(self.grid, y, x - 1)
           THEN Pair(PacManState(x, y + 1, "N", self.grid), "dead")
           ELSE None
      [] self.d = "E" ->
           IF /\ occupied(self.grid, y, x + 1)
              /\ occupied(self.grid, y + 1, x)
              /\ occupied(self.grid, y - 1, x)
           THEN Pair(PacManState(x - 1, y, "W", self.grid), "dead")
           ELSE None
      [] self.d = "W" ->
           IF /\ occupied(self.grid, y, x - 1)
              /\ occupied(self.grid, y + 1, x)
              /\ occupied(self.grid, y - 1, x)
           THEN Pair(PacManState(x + 1, y, "E", self.grid), "dead")
           ELSE None
      [] OTHER -> None

\* an append without the membership test
AddAlways(acc, e) == Append(acc, e)

\* if not any(j == e[1] for (i, j) in successor_states): append(e)
AddIfNew(acc, e) ==
    IF \E i \in 1..Len(acc) : Eq(acc[i].state, e.state) THEN acc ELSE Append(acc, e)

\* if dead and not any(j == dead[1] ...): append(dead)
AddDead(acc, dead) == IF dead = None THEN acc ELSE AddIfNew(acc, dead)

\* the four top-level if-blocks of the loop body, for the cell (x, y)
NorthBlock(self, x, y, acc) ==
    IF ~occupied(self.grid, x, y + 1) THEN
        LET n  == moveNorth(self, x, y)
            a1 == AddIfNew(acc, n)
            a2 == IF ~occupied(self.grid, x, y - 1)
                  THEN AddIfNew(a1, moveSouth(self, x, y)) ELSE a1
        IN AddDead(a2, deadend(n.state, x, y))
    ELSE acc

SouthBlock(self, x, y, acc) ==
    IF ~occupied(self.grid, x, y - 1) THEN
        LET so == moveSouth(self, x, y)
            a1 == AddIfNew(acc, so)
            a2 == IF ~occupied(self.grid, x, y + 1)
                  THEN AddIfNew(a1, moveNorth(self, x, y)) ELSE a1
        IN AddDead(a2, deadend(so.state, x, y))
    ELSE acc

EastBlock(self, x, y, acc) ==
    IF ~occupied(self.grid, x + 1, y) THEN
        LET e  == moveEast(self, x, y)
            a1 == AddIfNew(acc, e)
            a2 == IF ~occupied(self.grid, x - 1, y)
                  THEN AddIfNew(a1, moveWest(self, x, y)) ELSE a1
        IN AddDead(a2, deadend(e.state, x, y))
    ELSE acc

WestBlock(self, x, y, acc) ==
    IF ~occupied(self.grid, x - 1, y) THEN
        LET w  == moveWest(self, x, y)
            a1 == AddIfNew(acc, w)
            a2 == IF ~occupied(self.grid, x + 1, y)
                  THEN AddIfNew(a1, moveEast(self, x, y)) ELSE a1
        IN AddDead(a2, deadend(w.state, x, y))
    ELSE acc

CellBody(self, x, y, acc) ==
    WestBlock(self, x, y,
      EastBlock(self, x, y,
        SouthBlock(self, x, y,
          NorthBlock(self, x, y, acc))))

\* for y in range(len(grid.grid)): for x in range(len(grid.grid[0])):
\* the first k cells of that row-major enumeration have been processed
RECURSIVE Loop(_, _)
Loop(self, k) ==
    IF k = 0 THEN <<>>
    ELSE LET w == Len(self.grid.grid[1])
             x == (k - 1) % w
             y == (k - 1) \div w
         IN CellBody(self, x, y, Loop(self, k - 1))

successors(self) ==
    Loop(self, Len(self.grid.grid) * Len(self.grid.grid[1]))

\* ------------------------------------------------------------ the inputs
RowsOfLen(n) == [1..n -> Cell]

\* rectangular descriptions of at most MaxCells cells
RectInputs ==
    UNION {[1..h -> RowsOfLen(w)] :
             <<w, h>> \in {p \in (1..MaxCells) \X (1..MaxCells) : p[1] * p[2] <= MaxCells}}

\* any list of at most MaxRows rows of 1..MaxRowLen characters, [] included
AnyRow == UNION {RowsOfLen(n) : n \in 1..MaxRowLen}
AnyInputs == UNION {[1..h -> AnyRow] : h \in 0..MaxRows}

\* the coordinates a call is tried with: the grid and one cell around it
XAround(g) == -1..(g.xmax + 1)
YAround(g) == -1..(g.ymax + 1)

NoQuery == [x |-> 0, y |-> 0, raised |-> FALSE, val |-> FALSE]
NoCmp == [other |-> NoState, eq |-> FALSE, h1 |-> 0, h2 |-> 0]

\* --------------------------------------------------------------- actions
\* grid.occupied(x, y)
Occupied(x, y) ==
    /\ err = "none"
    /\ last' = "occupied"
    /\ q' = [x |-> x, y |-> y,
             raised |-> OccupiedRaises(grid, x, y),
             val |-> IF OccupiedRaises(grid, x, y) THEN FALSE ELSE occupied(grid, x, y)]
    /\ cmp' = NoCmp
    /\ succ' = <<>>
    /\ UNCHANGED <<input, grid, err, s>>

\* PacManState(x, y, d, grid) for a cell of the grid
NewState(x, y, d) ==
    /\ err = "none"
    /\ s' = PacManState(x, y, d, grid)
    /\ last' = "new"
    /\ q' = NoQuery /\ cmp' = NoCmp /\ succ' = <<>>
    /\ UNCHANGED <<input, grid, err>>

\* s == other, s.__hash__(), other.__hash__()
Compare(x, y, d) ==
    /\ s # NoState
    /\ LET other == PacManState(x, y, d, grid)
       IN cmp' = [other |-> other, eq |-> Eq(s, other),
                  h1 |-> Hash(s), h2 |-> Hash(other)]
    /\ last' = "cmp"
    /\ q' = NoQuery /\ succ' = <<>>
    /\ UNCHANGED <<input, grid, err, s>>

\* s.successors()
Successors ==
    /\ s # NoState
    /\ succ' = successors(s)
    /\ last' = "successors"
    /\ q' = NoQuery /\ cmp' = NoCmp
    /\ UNCHANGED <<input, grid, err, s>>

\* the search takes one of the returned successors as its next state
Advance(i) ==
    /\ last = "successors"
    /\ i \in 1..Len(succ)
    /\ s' = succ[i].state
    /\ last' = "new"
    /\ q' = NoQuery /\ cmp' = NoCmp /\ succ' = <<>>
    /\ UNCHANGED <<input, grid, err>>

\* PacManGrid(input)
Construct ==
    /\ err = "pending"
    /\ IF InitRaises(input)
       THEN grid' = NoGrid /\ err' = "IndexError"
       ELSE grid' = PacManGrid(input) /\ err' = "none"
    /\ last' = "construct"
    /\ UNCHANGED <<input, s, q, cmp, succ>>

\* ------------------------------------------------------- specifications
\* the transition engine on well-formed grids
Init ==
    /\ input \in RectInputs
    /\ grid = PacManGrid(input)
    /\ err = "none"
    /\ \E x \in 0..grid.xmax, y \in 0..grid.ymax, d \in Dirs :
          s = PacManState(x, y, d, grid)
    /\ last = "new"
    /\ q = NoQuery /\ cmp = NoCmp /\ succ = <<>>

Next ==
    \/ \E x \in XAround(grid), y \in YAround(grid) : Occupied(x, y)
    \/ \E x \in 0..grid.xmax, y \in 0..grid.ymax, d \in Dirs : NewState(x, y, d)
    \/ \E x \in 0..grid.xmax, y \in 0..grid.ymax, d \in Dirs : Compare(x, y, d)
    \/ Successors
    \/ \E i \in 1..Len(succ) : Advance(i)

Spec == Init /\ [][Next]_vars

\* grid construction from arbitrary row lists
InitCtor ==
    /\ input \in AnyInputs
    /\ grid = NoGrid
    /\ err = "pending"
    /\ s = NoState
    /\ last = "none"
    /\ q = NoQuery /\ cmp = NoCmp /\ succ = <<>>

NextCtor ==
    \/ Construct
    \/ \E x \in XAround(grid), y \in YAround(grid) : Occupied(x, y)

SpecCtor == InitCtor /\ [][NextCtor]_vars

\* ------------------------------------------------- helpers of the claims
Width(rows) == Len(rows[1])
Height(rows) == Len(rows)

InBounds(rows, x, y) == x \in 0..(Width(rows) - 1) /\ y \in 0..(Height(rows) - 1)

\* the wall test stated on the description: row 0 is the top row
IsWall(rows, x, y) ==
    IF InBounds(rows, x, y) THEN rows[(Height(rows) - 1 - y) + 1][x + 1] = "X" ELSE TRUE

Malformed(rows) ==
    \/ Len(rows) = 0
    \/ \E i, j \in 1..Len(rows) : Len(rows[i]) # Len(rows[j])

Abs(n) == IF n < 0 THEN -n ELSE n

Adjacent(a, b) == Abs(a.x - b.x) + Abs(a.y - b.y) = 1

DX(d) == CASE d = "E" -> 1 [] d = "W" -> -1 [] OTHER -> 0
DY(d) == CASE d = "N" -> 1 [] d = "S" -> -1 [] OTHER -> 0
Reverse(d) == CASE d = "N" -> "S" [] d = "S" -> "N" [] d = "E" -> "W" [] OTHER -> "E"
Sides(d) == IF d \in {"N", "S"} THEN {"E", "W"} ELSE {"N", "S"}

\* the cell ahead of st and the two cells beside it are all walls
BoxedIn(rows, st) ==
    /\ IsWall(rows, st.x + DX(st.d), st.y + DY(st.d))
    /\ \A o \in Sides(st.d) : IsWall(rows, st.x + DX(o), st.y + DY(o))

Rank(via) ==
    CASE via = "N" -> 1 [] via = "S" -> 2 [] via = "E" -> 3 [] via = "W" -> 4 [] OTHER -> 5

DeadIdx == {i \in 1..Len(succ) : succ[i].via = "dead"}

\* the (hash, state) pairs of a successor list, without the via field
Pairs(l) == [i \in 1..Len(l) |-> <<l[i].hash, l[i].state>>]

\* ---------------------------------------------------------------- claims
\* C1: occupied(x, y) is true outside [0,width) x [0,height) and otherwise
\* true exactly when column x of input row (height - 1 - y) is 'X'.
C1_Occupied ==
    last = "occupied" => (~q.raised /\ q.val = IsWall(input, q.x, q.y))

\* a wall found in the bottom row where the top-down row of the same index is open
C1_Witness ==
    /\ last = "occupied"
    /\ InBounds(input, q.x, q.y)
    /\ q.val
    /\ input[q.y + 1][q.x + 1] = "."

\* C2: s1 == s2 iff x, y and direction all match; the hashes are equal
\* whenever x and y match, so equal states have equal hashes and states that
\* differ only in direction are unequal with equal hashes.
C2_EqHash ==
    last = "cmp" =>
        /\ cmp.eq <=> (s.x = cmp.other.x /\ s.y = cmp.other.y /\ s.d = cmp.other.d)
        /\ (s.x = cmp.other.x /\ s.y = cmp.other.y) => cmp.h1 = cmp.h2
        /\ cmp.eq => cmp.h1 = cmp.h2

C2_Witness ==
    /\ last = "cmp"
    /\ s.x = cmp.other.x /\ s.y = cmp.other.y /\ s.d # cmp.other.d
    /\ ~cmp.eq
    /\ cmp.h1 = cmp.h2

\* C3: every straight-move successor of a state at an in-bounds position is
\* on an open, in-bounds cell that is an orthogonal neighbour of the state's
\* own cell.
C3_Adjacent ==
    (last = "successors" /\ InBounds(input, s.x, s.y)) =>
        \A i \in 1..Len(succ) :
            succ[i].via \in Dirs =>
                /\ ~IsWall(input, succ[i].state.x, succ[i].state.y)
                /\ Adjacent(s, succ[i].state)

\* C4: every straight-move successor carries the direction of travel of the
\* helper that built it: North, South, East, West.
C4_Direction ==
    last = "successors" =>
        \A i \in 1..Len(succ) :
            succ[i].via \in Dirs => succ[i].state.d = succ[i].via

\* C5: successors() holds no two structurally equal states, and a state is
\* never left out because another one with the same hash and a different
\* direction is already present.
C5_NoDuplicates ==
    last = "successors" =>
        /\ \A i, j \in 1..Len(succ) :
              (i # j) =>
                 ~(/\ succ[i].state.x = succ[j].state.x
                   /\ succ[i].state.y = succ[j].state.y
                   /\ succ[i].state.d = succ[j].state.d)
        /\ \A x \in 0..(Width(input) - 1), y \in 0..(Height(input) - 1) :
              /\ ~IsWall(input, x, y + 1) =>
                    \E i \in 1..Len(succ) :
                        succ[i].state.x = x /\ succ[i].state.y = y + 1 /\ succ[i].state.d = "N"
              /\ ~IsWall(input, x, y - 1) =>
                    \E i \in 1..Len(succ) :
                        succ[i].state.x = x /\ succ[i].state.y = y - 1 /\ succ[i].state.d = "S"

\* two kept elements on one cell: equal hashes, different directions
C5_Witness ==
    /\ last = "successors"
    /\ \E i, j \in 1..Len(succ) :
          /\ i # j
          /\ succ[i].hash = succ[j].hash
          /\ succ[i].state.x = succ[j].state.x
          /\ succ[i].state.y = succ[j].state.y
          /\ succ[i].state.d # succ[j].state.d

\* C6: construction from an empty row list or from rows of unequal length
\* fails with MalformedGrid, produces no grid, and occupied() is never
\* reached on such a grid.
C6_MalformedGrid ==
    Malformed(input) =>
        /\ err # "pending" => (err = "MalformedGrid" /\ grid = NoGrid)
        /\ last # "occupied"

\* C7: if the cell ahead of s and the two cells beside it are all occupied,
\* successors() holds exactly one dead-end successor, one step behind s and
\* facing the reverse direction; otherwise it holds no dead-end successor.
C7_DeadEnd ==
    last = "successors" =>
        IF BoxedIn(input, s)
        THEN /\ Cardinality(DeadIdx) = 1
             /\ \A i \in DeadIdx :
                   /\ succ[i].state.d = Reverse(s.d)
                   /\ succ[i].state.x = s.x - DX(s.d)
                   /\ succ[i].state.y = s.y - DY(s.d)
        ELSE DeadIdx = {}

\* C8: successors() lists the straight moves in the order North, South,
\* East, West and the dead-end reversal last.
C8_Order ==
    last = "successors" =>
        \A i, j \in 1..Len(succ) : (i < j) => Rank(succ[i].via) <= Rank(succ[j].via)

\* C9: every state returned by successors(), dead-end reversals included,
\* is on an open, in-bounds cell.
C9_NeverInWall ==
    last = "successors" =>
        \A i \in 1..Len(succ) : ~IsWall(input, succ[i].state.x, succ[i].state.y)

====
